---- MODULE Spec2Model ----
(***************************************************************************)
(* Model of download_videos.py: the batch downloader of SmartHome-Bench.   *)
(*                                                                         *)
(* main() resets four global counters, then runs download_video_wrapper    *)
(* on every entry of the video list, either in a for loop (one worker) or  *)
(* on a ThreadPoolExecutor (several workers).  download_video_wrapper      *)
(* skips a title that video_exists() finds in the output directory and     *)
(* otherwise calls download_video, which runs yt-dlp, retries a timeout or *)
(* a process error by calling itself with retry_count + 1, and updates the *)
(* counters under progress_lock.                                           *)
(*                                                                         *)
(* The external fetch (subprocess.run of yt-dlp) is the environment: each  *)
(* invocation ends in one of the results of FetchResults.  The standard    *)
(* output is taken to be writable, so print never raises.                  *)
(***************************************************************************)
EXTENDS Integers, Sequences, FiniteSets, TLC

\* ---------------------------------------------------------------- bounds
MaxItems == 2     \* longest video list read from the CSV file
MaxTitles == 2    \* number of different titles that occur in a list
MaxWorkers == 2   \* largest value given to --workers
MaxRuns == 2      \* number of times main() is run on the same output directory

\* ------------------------------------------------------ program constants
MAX_RETRIES == 3

Titles == 1..MaxTitles
Workers == 1..MaxWorkers

\* the ways one subprocess.run of yt-dlp can end
\*   "ok"       exit status 0 and the file <title>.<ext> written
\*   "nofile"   exit status 0 and no file written
\*   "timeout"  subprocess.TimeoutExpired
\*   "procerr"  subprocess.CalledProcessError (non-zero exit, check=True)
\*   "exc"      any other exception (OSError, FileNotFoundError, ...)
FetchResults == {"ok", "nofile", "timeout", "procerr", "exc"}

VARIABLES
    max_workers,      \* args.workers
    videos,           \* the list returned by read_video_urls(): a sequence of titles
    store,            \* titles that have a file with a video extension in OUTPUT_DIR
    success_count,
    skip_count,
    fail_count,
    completed_count,
    progress_lock,    \* 0 when free, else the worker that holds it
    mainpc,           \* position of main(): "run" or "done" (summary printed)
    summary,          \* the four numbers of the printed summary
    nextItem,         \* index of the next entry of videos to be started
    job,              \* job[w]: the entry worker w is processing, 0 when idle
    pc,               \* pc[i]: position of the call that processes entry i
    retry_count,      \* retry_count[i]: argument of the innermost download_video
    current,          \* current[i]: the local variable printed as [current/total]
    run,              \* which run of main() this is
    \* history variables: they record what happened and influence nothing
    fetches,          \* fetches[i]: number of subprocess.run calls made for entry i
    updates,          \* updates[i]: number of times a counter was incremented for entry i
    atUpdate,         \* atUpdate[i]: completed_count right after the update of entry i
    seen,             \* seen[i]: how the fetches of entry i ended, as download_video
                      \* saw it: "found", "nofile", "timeout", "procerr", "exc"
    last,             \* last[i]: how the latest fetch of entry i ended
    reason,           \* reason[i]: which failure line was printed for entry i
    present,          \* present[i]: what video_exists returned for entry i
    prev              \* prev[i]: outcome of entry i in the previous run

vars == <<max_workers, videos, store, success_count, skip_count, fail_count,
          completed_count, progress_lock, mainpc, summary, nextItem, job, pc,
          retry_count, current, run, fetches, updates, atUpdate, seen, last,
          reason, present, prev>>

counters == <<success_count, skip_count, fail_count, completed_count>>
inputs == <<max_workers, videos>>

total_videos == Len(videos)
Items == 1..total_videos

Terminal == {"skipped", "success", "failed"}

\* all sequences over S of length 0..n
RECURSIVE SeqsUpTo(_, _)
SeqsUpTo(S, n) ==
    IF n = 0 THEN {<<>>}
    ELSE LET shorter == SeqsUpTo(S, n - 1)
         IN shorter \cup {Append(s, x) : s \in {t \in shorter : Len(t) = n - 1}, x \in S}

\* video_exists(title): some <title>.<ext> is in the output directory
video_exists(title) == title \in store

\* a per-entry record that holds v for every entry of the list
Fresh(v) == [i \in 1..Len(videos) |-> v]

Init ==
    /\ max_workers \in Workers
    /\ videos \in SeqsUpTo(Titles, MaxItems)
    /\ store \in SUBSET Titles
    /\ run = 1
    /\ prev = Fresh("none")
    /\ success_count = 0
    /\ skip_count = 0
    /\ fail_count = 0
    /\ completed_count = 0
    /\ progress_lock = 0
    /\ mainpc = "run"
    /\ summary = <<>>
    /\ nextItem = 1
    /\ job = [w \in Workers |-> 0]
    /\ pc = Fresh("pending")
    /\ retry_count = Fresh(0)
    /\ current = Fresh(0)
    /\ fetches = Fresh(0)
    /\ updates = Fresh(0)
    /\ atUpdate = Fresh(0)
    /\ seen = Fresh({})
    /\ last = Fresh("none")
    /\ reason = Fresh("none")
    /\ present = Fresh(FALSE)

\* ------------------------------------------------------------- operations

\* a worker thread (or, with one worker, the main thread) is at entry i
At(w, i, where) ==
    /\ w <= max_workers
    /\ i = job[w]
    /\ i \in Items
    /\ pc[i] = where

\* `with progress_lock:` is entered
Acquire(w) ==
    /\ progress_lock = 0
    /\ progress_lock' = w

\* a `with progress_lock:` block that holds one statement, run in one step
Locked == progress_lock = 0 /\ UNCHANGED progress_lock

\* download_video_wrapper returns: the worker takes the next entry
Return(w, i, outcome) ==
    /\ pc' = [pc EXCEPT ![i] = outcome]
    /\ job' = [job EXCEPT ![w] = 0]

\* WrapperStart with the video_exists test left out: every entry is downloaded
WrapperStart_NoCheck(w, i) ==
    /\ job' = [job EXCEPT ![w] = i]
    /\ nextItem' = i + 1
    /\ present' = [present EXCEPT ![i] = video_exists(videos[i])]
    /\ pc' = [pc EXCEPT ![i] = "begin"]
    /\ UNCHANGED <<inputs, store, counters, progress_lock, mainpc, summary,
                   retry_count, current, run, fetches, updates, atUpdate, seen, last,
                   reason, prev>>

\* download_video_wrapper(video, len(videos)) starts on entry i in worker w:
\* title lookup and the video_exists test
WrapperStart(w, i) ==
    /\ job' = [job EXCEPT ![w] = i]
    /\ nextItem' = i + 1
    /\ present' = [present EXCEPT ![i] = video_exists(videos[i])]
    /\ pc' = [pc EXCEPT ![i] = IF video_exists(videos[i]) THEN "skip" ELSE "begin"]
    /\ UNCHANGED <<inputs, store, counters, progress_lock, mainpc, summary,
                   retry_count, current, run, fetches, updates, atUpdate, seen, last,
                   reason, prev>>

\* main, max_workers == 1: `for video in videos: download_video_wrapper(...)`
SequentialNext ==
    /\ max_workers = 1
    /\ mainpc = "run"
    /\ job[1] = 0
    /\ nextItem <= total_videos
    /\ WrapperStart(1, nextItem)

\* PoolTake by a thread that is still busy with another entry
PoolTake_NoWait(w) ==
    /\ max_workers > 1
    /\ w <= max_workers
    /\ mainpc = "run"
    /\ nextItem <= total_videos
    /\ WrapperStart(w, nextItem)

\* main, max_workers > 1: every entry is submitted in list order and an idle
\* thread of the pool takes the oldest entry of the executor's queue.
\* download_video catches every Exception and the wrapper raises nowhere
\* else, so future.result() returns and the except branch of the
\* as_completed loop is not entered.
PoolTake(w) ==
    /\ max_workers > 1
    /\ w <= max_workers
    /\ mainpc = "run"
    /\ job[w] = 0
    /\ nextItem <= total_videos
    /\ WrapperStart(w, nextItem)

\* wrapper, skip branch: lock taken, skip_count += 1
SkipEnter(w) ==
    \E i \in Items :
        /\ At(w, i, "skip")
        /\ Acquire(w)
        /\ skip_count' = skip_count + 1
        /\ updates' = [updates EXCEPT ![i] = @ + 1]
        /\ pc' = [pc EXCEPT ![i] = "skipCS"]
        /\ UNCHANGED <<inputs, store, success_count, fail_count, completed_count,
                       mainpc, summary, nextItem, job, retry_count, current, run,
                       fetches, atUpdate, seen, last, reason, present, prev>>

\* SkipExit with current = completed_count + 1 taken after the increment
SkipExit_OneTooMany(w) ==
    \E i \in Items :
        /\ At(w, i, "skipCS")
        /\ progress_lock = w
        /\ progress_lock' = 0
        /\ completed_count' = completed_count + 1
        /\ current' = [current EXCEPT ![i] = completed_count + 2]
        /\ atUpdate' = [atUpdate EXCEPT ![i] = completed_count + 1]
        /\ Return(w, i, "skipped")
        /\ UNCHANGED <<inputs, store, success_count, skip_count, fail_count,
                       mainpc, summary, nextItem, retry_count, run, fetches,
                       updates, seen, last, reason, present, prev>>

\* wrapper, skip branch: completed_count += 1; current = completed_count;
\* lock released; the skip line printed; {'status': 'skipped'} returned
SkipExit(w) ==
    \E i \in Items :
        /\ At(w, i, "skipCS")
        /\ progress_lock = w
        /\ progress_lock' = 0
        /\ completed_count' = completed_count + 1
        /\ current' = [current EXCEPT ![i] = completed_count + 1]
        /\ atUpdate' = [atUpdate EXCEPT ![i] = completed_count + 1]
        /\ Return(w, i, "skipped")
        /\ UNCHANGED <<inputs, store, success_count, skip_count, fail_count,
                       mainpc, summary, nextItem, retry_count, run, fetches,
                       updates, seen, last, reason, present, prev>>

\* FetchStart with subprocess.run inside the `with progress_lock:` block
FetchStart_HoldsLock(w) ==
    \E i \in Items :
        /\ At(w, i, "begin")
        /\ Acquire(w)
        /\ current' = [current EXCEPT ![i] = completed_count + 1]
        /\ fetches' = [fetches EXCEPT ![i] = @ + 1]
        /\ pc' = [pc EXCEPT ![i] = "fetching"]
        /\ UNCHANGED <<inputs, store, counters, mainpc, summary, nextItem, job,
                       retry_count, run, updates, atUpdate, seen, last, reason,
                       present, prev>>

\* FetchStart with current = completed_count, the + 1 forgotten
FetchStart_OffByOne(w) ==
    \E i \in Items :
        /\ At(w, i, "begin")
        /\ Locked
        /\ current' = [current EXCEPT ![i] = completed_count]
        /\ fetches' = [fetches EXCEPT ![i] = @ + 1]
        /\ pc' = [pc EXCEPT ![i] = "fetching"]
        /\ UNCHANGED <<inputs, store, counters, mainpc, summary, nextItem, job,
                       retry_count, run, updates, atUpdate, seen, last, reason,
                       present, prev>>

\* download_video, top of the try block: current = completed_count + 1 under
\* the lock, the "Downloading" line, and subprocess.run is started
FetchStart(w) ==
    \E i \in Items :
        /\ At(w, i, "begin")
        /\ Locked
        /\ current' = [current EXCEPT ![i] = completed_count + 1]
        /\ fetches' = [fetches EXCEPT ![i] = @ + 1]
        /\ pc' = [pc EXCEPT ![i] = "fetching"]
        /\ UNCHANGED <<inputs, store, counters, mainpc, summary, nextItem, job,
                       retry_count, run, updates, atUpdate, seen, last, reason,
                       present, prev>>

\* AfterFetch that takes a zero exit for a download, without the file search
AfterFetch_TrustExit(r, found) ==
    CASE r = "timeout" -> "timeout"
      [] r = "procerr" -> "procerr"
      [] r = "exc"     -> "exc"
      [] OTHER         -> "found"

\* where download_video continues after subprocess.run ended with result r;
\* found is the outcome of the search for <title>.<ext> after a zero exit
AfterFetch(r, found) ==
    CASE r = "timeout" -> "timeout"
      [] r = "procerr" -> "procerr"
      [] r = "exc"     -> "exc"
      [] OTHER         -> IF found THEN "found" ELSE "nofile"

\* subprocess.run returns or raises; after a zero exit the output directory
\* is searched for the downloaded file
FetchReturn(w) ==
    \E i \in Items, r \in FetchResults :
        /\ At(w, i, "fetching")
        /\ store' = IF r = "ok" THEN store \cup {videos[i]} ELSE store
        /\ seen' = [seen EXCEPT ![i] = @ \cup {AfterFetch(r, videos[i] \in store')}]
        /\ last' = [last EXCEPT ![i] = AfterFetch(r, videos[i] \in store')]
        /\ pc' = [pc EXCEPT ![i] = AfterFetch(r, videos[i] \in store')]
        /\ UNCHANGED <<inputs, counters, progress_lock, mainpc, summary, nextItem,
                       job, retry_count, current, run, fetches, updates,
                       atUpdate, reason, present, prev>>

\* CountEnter that leaves fail_count alone
CountEnter_ForgetFail(w, i, ok, to) ==
    /\ Acquire(w)
    /\ success_count' = IF ok THEN success_count + 1 ELSE success_count
    /\ fail_count' = fail_count
    /\ updates' = [updates EXCEPT ![i] = @ + 1]
    /\ pc' = [pc EXCEPT ![i] = to]

\* CountEnter that increments the other counter of the two
CountEnter_Swapped(w, i, ok, to) ==
    /\ Acquire(w)
    /\ success_count' = IF ok THEN success_count ELSE success_count + 1
    /\ fail_count' = IF ok THEN fail_count + 1 ELSE fail_count
    /\ updates' = [updates EXCEPT ![i] = @ + 1]
    /\ pc' = [pc EXCEPT ![i] = to]

\* the first statement of a two-statement locked block that counts entry i
\* in success_count (ok) or in fail_count
CountEnter(w, i, ok, to) ==
    /\ Acquire(w)
    /\ success_count' = IF ok THEN success_count + 1 ELSE success_count
    /\ fail_count' = IF ok THEN fail_count ELSE fail_count + 1
    /\ updates' = [updates EXCEPT ![i] = @ + 1]
    /\ pc' = [pc EXCEPT ![i] = to]

\* CountExit with `completed_count += 1` left out
CountExit_NoComplete(w, i, outcome) ==
    /\ progress_lock = w
    /\ progress_lock' = 0
    /\ completed_count' = completed_count
    /\ atUpdate' = [atUpdate EXCEPT ![i] = completed_count]
    /\ Return(w, i, outcome)

\* the last statement of such a block, completed_count += 1, the release of
\* the lock, the line printed with the local current, and the return
CountExit(w, i, outcome) ==
    /\ progress_lock = w
    /\ progress_lock' = 0
    /\ completed_count' = completed_count + 1
    /\ atUpdate' = [atUpdate EXCEPT ![i] = completed_count + 1]
    /\ Return(w, i, outcome)

\* download_video, `if downloaded_file:` branch, success_count += 1
SuccessEnter(w) ==
    \E i \in Items :
        /\ At(w, i, "found")
        /\ CountEnter(w, i, TRUE, "successCS")
        /\ UNCHANGED <<inputs, store, skip_count, completed_count, mainpc, summary,
                       nextItem, job, retry_count, current, run, fetches,
                       atUpdate, seen, last, reason, present, prev>>

\* completed_count += 1, "Successfully downloaded" printed, return True
SuccessExit(w) ==
    \E i \in Items :
        /\ At(w, i, "successCS")
        /\ CountExit(w, i, "success")
        /\ UNCHANGED <<inputs, store, success_count, skip_count, fail_count, mainpc,
                       summary, nextItem, retry_count, current, run, fetches,
                       updates, seen, last, reason, present, prev>>

\* NoFileEnter that calls download_video again while retry_count allows
NoFileEnter_Retry(w) ==
    \E i \in Items :
        /\ At(w, i, "nofile")
        /\ IF retry_count[i] < MAX_RETRIES
             THEN /\ Locked
                  /\ retry_count' = [retry_count EXCEPT ![i] = @ + 1]
                  /\ pc' = [pc EXCEPT ![i] = "begin"]
                  /\ UNCHANGED <<success_count, fail_count, updates, reason>>
             ELSE /\ CountEnter(w, i, FALSE, "failCS")
                  /\ reason' = [reason EXCEPT ![i] = "nofile"]
                  /\ UNCHANGED retry_count
        /\ UNCHANGED <<inputs, store, skip_count, completed_count, mainpc, summary,
                       nextItem, job, current, run, fetches, atUpdate, seen, last,
                       present, prev>>

\* download_video, else branch of `if downloaded_file:`, fail_count += 1
NoFileEnter(w) ==
    \E i \in Items :
        /\ At(w, i, "nofile")
        /\ CountEnter(w, i, FALSE, "failCS")
        /\ reason' = [reason EXCEPT ![i] = "nofile"]
        /\ UNCHANGED <<inputs, store, skip_count, completed_count, mainpc, summary,
                       nextItem, job, retry_count, current, run, fetches,
                       atUpdate, seen, last, present, prev>>

\* Handler with `retry_count <= MAX_RETRIES`: one retry too many
Handler_OneMore(w, i, exhausted) ==
    /\ Locked
    /\ current' = [current EXCEPT ![i] = completed_count + 1]
    /\ IF retry_count[i] <= MAX_RETRIES
         THEN /\ retry_count' = [retry_count EXCEPT ![i] = @ + 1]
              /\ pc' = [pc EXCEPT ![i] = "begin"]
         ELSE /\ retry_count' = retry_count
              /\ pc' = [pc EXCEPT ![i] = exhausted]

\* Handler with `retry_count < MAX_RETRIES - 1`: one retry too few
Handler_OneLess(w, i, exhausted) ==
    /\ Locked
    /\ current' = [current EXCEPT ![i] = completed_count + 1]
    /\ IF retry_count[i] < MAX_RETRIES - 1
         THEN /\ retry_count' = [retry_count EXCEPT ![i] = @ + 1]
              /\ pc' = [pc EXCEPT ![i] = "begin"]
         ELSE /\ retry_count' = retry_count
              /\ pc' = [pc EXCEPT ![i] = exhausted]

\* the handlers of TimeoutExpired and CalledProcessError begin alike:
\* current = completed_count + 1 under the lock, then the test of retry_count;
\* below MAX_RETRIES download_video calls itself with retry_count + 1
Handler(w, i, exhausted) ==
    /\ Locked
    /\ current' = [current EXCEPT ![i] = completed_count + 1]
    /\ IF retry_count[i] < MAX_RETRIES
         THEN /\ retry_count' = [retry_count EXCEPT ![i] = @ + 1]
              /\ pc' = [pc EXCEPT ![i] = "begin"]
         ELSE /\ retry_count' = retry_count
              /\ pc' = [pc EXCEPT ![i] = exhausted]

\* `except subprocess.TimeoutExpired:`
TimeoutHandler(w) ==
    \E i \in Items :
        /\ At(w, i, "timeout")
        /\ Handler(w, i, "timeoutFail")
        /\ UNCHANGED <<inputs, store, counters, mainpc, summary, nextItem, job,
                       run, fetches, updates, atUpdate, seen, last, reason, present, prev>>

\* `except subprocess.CalledProcessError as e:`
ProcErrHandler(w) ==
    \E i \in Items :
        /\ At(w, i, "procerr")
        /\ Handler(w, i, "procerrFail")
        /\ UNCHANGED <<inputs, store, counters, mainpc, summary, nextItem, job,
                       run, fetches, updates, atUpdate, seen, last, reason, present, prev>>

\* timeout handler, else branch: second locked block, fail_count += 1
TimeoutFailEnter(w) ==
    \E i \in Items :
        /\ At(w, i, "timeoutFail")
        /\ CountEnter(w, i, FALSE, "failCS")
        /\ reason' = [reason EXCEPT ![i] = "timeout"]
        /\ UNCHANGED <<inputs, store, skip_count, completed_count, mainpc, summary,
                       nextItem, job, retry_count, current, run, fetches,
                       atUpdate, seen, last, present, prev>>

\* ProcErrFailEnter that prints the line of the timeout handler
ProcErrFailEnter_TimeoutLine(w) ==
    \E i \in Items :
        /\ At(w, i, "procerrFail")
        /\ CountEnter(w, i, FALSE, "failCS")
        /\ reason' = [reason EXCEPT ![i] = "timeout"]
        /\ UNCHANGED <<inputs, store, skip_count, completed_count, mainpc, summary,
                       nextItem, job, retry_count, current, run, fetches,
                       atUpdate, seen, last, present, prev>>

\* process error handler, else branch: second locked block, fail_count += 1
ProcErrFailEnter(w) ==
    \E i \in Items :
        /\ At(w, i, "procerrFail")
        /\ CountEnter(w, i, FALSE, "failCS")
        /\ reason' = [reason EXCEPT ![i] = "procerr"]
        /\ UNCHANGED <<inputs, store, skip_count, completed_count, mainpc, summary,
                       nextItem, job, retry_count, current, run, fetches,
                       atUpdate, seen, last, present, prev>>

\* ExceptionEnter that retries like the process error handler
ExceptionEnter_Retry(w) ==
    \E i \in Items :
        /\ At(w, i, "exc")
        /\ IF retry_count[i] < MAX_RETRIES
             THEN /\ Locked
                  /\ retry_count' = [retry_count EXCEPT ![i] = @ + 1]
                  /\ pc' = [pc EXCEPT ![i] = "begin"]
                  /\ UNCHANGED <<success_count, fail_count, updates, reason>>
             ELSE /\ CountEnter(w, i, FALSE, "failCS")
                  /\ reason' = [reason EXCEPT ![i] = "exc"]
                  /\ UNCHANGED retry_count
        /\ current' = [current EXCEPT ![i] = completed_count + 1]
        /\ UNCHANGED <<inputs, store, skip_count, completed_count, mainpc, summary,
                       nextItem, job, run, fetches, atUpdate, seen, last, present, prev>>

\* `except Exception as e:` one locked block: current = completed_count + 1;
\* fail_count += 1
ExceptionEnter(w) ==
    \E i \in Items :
        /\ At(w, i, "exc")
        /\ CountEnter(w, i, FALSE, "failCS")
        /\ current' = [current EXCEPT ![i] = completed_count + 1]
        /\ reason' = [reason EXCEPT ![i] = "exc"]
        /\ UNCHANGED <<inputs, store, skip_count, completed_count, mainpc, summary,
                       nextItem, job, retry_count, run, fetches, atUpdate, seen, last,
                       present, prev>>

\* FailExit that counts the failure a second time before it returns
FailExit_CountTwice(w) ==
    \E i \in Items :
        /\ At(w, i, "failCS")
        /\ CountExit(w, i, "failed")
        /\ fail_count' = fail_count + 1
        /\ updates' = [updates EXCEPT ![i] = @ + 1]
        /\ UNCHANGED <<inputs, store, success_count, skip_count, mainpc,
                       summary, nextItem, retry_count, current, run, fetches,
                       seen, last, reason, present, prev>>

\* the end of each of the four failure blocks: completed_count += 1, the lock
\* released, the failure line printed, return False
FailExit(w) ==
    \E i \in Items :
        /\ At(w, i, "failCS")
        /\ CountExit(w, i, "failed")
        /\ UNCHANGED <<inputs, store, success_count, skip_count, fail_count, mainpc,
                       summary, nextItem, retry_count, current, run, fetches,
                       updates, seen, last, reason, present, prev>>

\* Summary printed as soon as every entry was handed out, without waiting
\* for the calls that are still running
Summary_Early ==
    /\ mainpc = "run"
    /\ nextItem > total_videos
    /\ summary' = <<success_count, skip_count, fail_count, total_videos>>
    /\ mainpc' = "done"
    /\ UNCHANGED <<inputs, store, counters, progress_lock, nextItem, job, pc,
                   retry_count, current, run, fetches, updates, atUpdate, seen,
                   last, reason, present, prev>>

\* main: the loop (or the executor's `with` block) has ended; the summary
Summary ==
    /\ mainpc = "run"
    /\ nextItem > total_videos
    /\ \A w \in Workers : job[w] = 0
    /\ summary' = <<success_count, skip_count, fail_count, total_videos>>
    /\ mainpc' = "done"
    /\ UNCHANGED <<inputs, store, counters, progress_lock, nextItem, job, pc,
                   retry_count, current, run, fetches, updates, atUpdate, seen, last,
                   reason, present, prev>>

\* main() is run again on the same CSV file and output directory: the
\* counters are reset and the files in the directory stay
Rerun ==
    /\ mainpc = "done"
    /\ run < MaxRuns
    /\ run' = run + 1
    /\ prev' = pc
    /\ success_count' = 0
    /\ skip_count' = 0
    /\ fail_count' = 0
    /\ completed_count' = 0
    /\ mainpc' = "run"
    /\ summary' = <<>>
    /\ nextItem' = 1
    /\ pc' = Fresh("pending")
    /\ retry_count' = Fresh(0)
    /\ current' = Fresh(0)
    /\ fetches' = Fresh(0)
    /\ updates' = Fresh(0)
    /\ atUpdate' = Fresh(0)
    /\ seen' = Fresh({})
    /\ last' = Fresh("none")
    /\ reason' = Fresh("none")
    /\ present' = Fresh(FALSE)
    /\ UNCHANGED <<inputs, store, progress_lock, job>>

\* one step of the running batch (everything but a new run of the script)
Step ==
    \/ SequentialNext
    \/ \E w \in Workers : PoolTake(w)
    \/ \E w \in Workers : SkipEnter(w)
    \/ \E w \in Workers : SkipExit(w)
    \/ \E w \in Workers : FetchStart(w)
    \/ \E w \in Workers : FetchReturn(w)
    \/ \E w \in Workers : SuccessEnter(w)
    \/ \E w \in Workers : SuccessExit(w)
    \/ \E w \in Workers : NoFileEnter(w)
    \/ \E w \in Workers : TimeoutHandler(w)
    \/ \E w \in Workers : ProcErrHandler(w)
    \/ \E w \in Workers : TimeoutFailEnter(w)
    \/ \E w \in Workers : ProcErrFailEnter(w)
    \/ \E w \in Workers : ExceptionEnter(w)
    \/ \E w \in Workers : FailExit(w)
    \/ Summary

Next == Step \/ Rerun

Spec == Init /\ [][Next]_vars

\* Threads that can run do run and every subprocess.run ends (it has a
\* timeout of 1800 s): the batch keeps taking steps while one is possible.
FairSpec == Spec /\ WF_vars(Step)

\* ------------------------------------------------------------ properties

AllTerminal == \A i \in Items : pc[i] \in Terminal

\* C1: when the summary is printed, the success, skip and fail counts add up
\* to the number of entries of the list, for every list, every number of
\* workers and every result of the fetches.
C1_SummaryAddsUp ==
    mainpc = "done" =>
        /\ summary[4] = Len(videos)
        /\ summary[1] + summary[2] + summary[3] = summary[4]

C1_Witness ==
    /\ mainpc = "done"
    /\ max_workers = 2
    /\ summary[4] = 2
    /\ summary[1] = 1
    /\ summary[3] = 1

\* C2: with more than one worker, the numbers printed with the terminal lines
\* of a finished batch are exactly 1..total, each once.
C2_SequenceNumbersArePermutation ==
    (max_workers > 1 /\ mainpc = "done") =>
        /\ {current[i] : i \in Items} = 1..total_videos
        /\ \A i, j \in Items : i # j => current[i] # current[j]

\* C3: the number printed with the terminal line of an entry is the value of
\* completed_count right after that entry's own increment.
C3_ReportedIsOwnCompletion ==
    \A i \in Items : pc[i] \in Terminal => current[i] = atUpdate[i]

\* C4: with one worker an entry is started only when the entry before it is
\* terminal, and the entry at position i is reported with the number i.
C4_SequentialInOrder ==
    max_workers = 1 =>
        \A i \in Items :
            /\ (i > 1 /\ pc[i] # "pending") => pc[i - 1] \in Terminal
            /\ pc[i] \in Terminal => current[i] = i

C4_Witness ==
    /\ max_workers = 1
    /\ total_videos = 2
    /\ pc[1] = "failed"
    /\ fetches[1] = MAX_RETRIES + 1
    /\ pc[2] = "success"
    /\ current[2] = 2

\* C5: an entry whose title video_exists found is skipped: skip_count is
\* incremented once for it and yt-dlp is never run for it.
C5_PresentIsSkipped ==
    /\ \A i \in Items :
          present[i] =>
              /\ fetches[i] = 0
              /\ pc[i] \in {"skip", "skipCS", "skipped"}
              /\ pc[i] = "skipped" => updates[i] = 1
    /\ skip_count = Cardinality({i \in Items : pc[i] \in {"skipCS", "skipped"}})

C5_Witness ==
    \E i, j \in Items :
        /\ present[i]
        /\ pc[i] = "skipped"
        /\ skip_count = 1
        /\ pc[j] = "success"

\* C6 as stated: a second run on the output directory left by a finished
\* first run invokes yt-dlp for no entry and skips every entry.
C6_SecondRunSkipsAll ==
    (run = 2 /\ mainpc = "done") =>
        \A i \in Items : fetches[i] = 0 /\ pc[i] = "skipped"

\* C6 amended: in a second run, every entry that the first run ended as
\* success or skipped is skipped, and yt-dlp is not run for it; entries the
\* first run ended as failed may be fetched again.
C6_SecondRunSkipsCompleted ==
    run >= 2 =>
        \A i \in Items :
            prev[i] \in {"success", "skipped"} =>
                /\ fetches[i] = 0
                /\ pc[i] \in {"pending", "skip", "skipCS", "skipped"}

C6_Witness ==
    /\ run = 2
    /\ mainpc = "done"
    /\ \E i, j \in Items :
          /\ prev[i] = "success"
          /\ pc[i] = "skipped"
          /\ prev[j] = "failed"
          /\ fetches[j] > 0

\* C7: yt-dlp is run at most MAX_RETRIES + 1 times for an entry; the retry
\* counter of an entry stays in 0..MAX_RETRIES and counts that entry's own
\* repeated fetches only (it is 0 until the entry's first fetch has failed).
C7_RetryBound ==
    \A i \in Items :
        /\ fetches[i] <= MAX_RETRIES + 1
        /\ retry_count[i] \in 0..MAX_RETRIES
        /\ retry_count[i] <= fetches[i]
        /\ fetches[i] <= retry_count[i] + 1

C7_Witness ==
    \E i, j \in Items :
        /\ fetches[i] = MAX_RETRIES + 1
        /\ retry_count[i] = MAX_RETRIES
        /\ pc[j] = "fetching"
        /\ retry_count[j] = 0

\* C8: an entry not found by video_exists whose every fetch ended in a
\* timeout or a process error has had exactly MAX_RETRIES + 1 fetches when
\* it is terminal, is failed, and was counted once.
C8_AlwaysFailingExhausts ==
    \A i \in Items :
        (pc[i] \in Terminal /\ ~present[i] /\ seen[i] \subseteq {"timeout", "procerr"}) =>
            /\ fetches[i] = MAX_RETRIES + 1
            /\ pc[i] = "failed"
            /\ reason[i] \in {"timeout", "procerr"}
            /\ updates[i] = 1

C8_Witness ==
    \E i \in Items :
        /\ pc[i] = "failed"
        /\ seen[i] = {"timeout", "procerr"}
        /\ fetches[i] = MAX_RETRIES + 1
        /\ fail_count = 1

\* C9 as stated: a zero exit with no file is retried like a timeout, so an
\* entry that met one is failed only after MAX_RETRIES + 1 fetches.
C9_MissingFileIsRetried ==
    \A i \in Items :
        (pc[i] = "failed" /\ "nofile" \in seen[i]) => fetches[i] = MAX_RETRIES + 1

\* the state part of C9 amended
C9_NoFileState ==
    \A i \in Items :
        "nofile" \in seen[i] =>
            /\ pc[i] \in {"nofile", "failCS", "failed"}
            /\ pc[i] = "failed" => (reason[i] = "nofile" /\ updates[i] = 1)

\* the step part of C9 amended: no fetch once the file was found missing
C9_NoFileStep ==
    \A i \in Items :
        ("nofile" \in seen[i] /\ run' = run) => fetches'[i] = fetches[i]

\* C9 amended: a zero exit with no file is not retried; the entry is failed
\* on that attempt, whichever attempt it is, is counted once, and yt-dlp is
\* not run for it again.
C9_MissingFileFailsAtOnce == [](C9_NoFileState) /\ [][C9_NoFileStep]_vars

C9_Witness ==
    \E i \in Items :
        /\ pc[i] = "failed"
        /\ reason[i] = "nofile"
        /\ fetches[i] = 2

\* the state part of C10
C10_ExcState ==
    \A i \in Items :
        "exc" \in seen[i] =>
            /\ pc[i] \in {"exc", "failCS", "failed"}
            /\ pc[i] = "failed" => (reason[i] = "exc" /\ updates[i] = 1)

\* the step part of C10: no fetch after the attempt that raised
C10_ExcStep ==
    \A i \in Items :
        ("exc" \in seen[i] /\ run' = run) => fetches'[i] = fetches[i]

\* C10: an exception other than a timeout or a process error makes the entry
\* failed on that attempt with no further fetch, and the batch goes on: every
\* entry becomes terminal and the summary is printed, with one worker or more.
C10_UnexpectedFailureContained ==
    /\ [](C10_ExcState)
    /\ [][C10_ExcStep]_vars
    /\ (\E i \in Items : "exc" \in seen[i]) ~> (mainpc = "done" /\ AllTerminal)

C10_Witness ==
    /\ mainpc = "done"
    /\ AllTerminal
    /\ \E i, j \in Items :
          /\ reason[i] = "exc"
          /\ fetches[i] = 2
          /\ pc[j] = "success"

\* C11: an entry is counted and reported as a success only after a fetch of
\* it ended with exit status 0 and a file for its title was found; an attempt
\* that ended with exit status 0 and no file never makes a success.
C11_SuccessNeedsFile ==
    /\ \A i \in Items :
          /\ pc[i] \in {"found", "successCS", "success"} =>
                /\ last[i] = "found"
                /\ fetches[i] >= 1
                /\ videos[i] \in store
          /\ last[i] = "nofile" => pc[i] \in {"nofile", "failCS", "failed"}
    /\ success_count = Cardinality({i \in Items : pc[i] \in {"successCS", "success"}})

C11_Witness ==
    \E i, j \in Items :
        /\ pc[i] = "success"
        /\ success_count = 1
        /\ pc[j] = "failed"
        /\ last[j] = "nofile"
        /\ videos[j] \notin store

\* the positions of an entry at which no counter has been incremented for it
Uncounted ==
    {"pending", "skip", "begin", "fetching", "found", "nofile", "timeout",
     "procerr", "exc", "timeoutFail", "procerrFail"}

\* C12: a counter is incremented at most once for an entry, never while the
\* entry is still being attempted or retried, and exactly once for every
\* entry when the batch has ended; the counters hold nothing else.
C12_OneUpdatePerEntry ==
    /\ \A i \in Items :
          /\ updates[i] <= 1
          /\ pc[i] \in Uncounted => updates[i] = 0
          /\ pc[i] \in Terminal => updates[i] = 1
    /\ mainpc = "done" => \A i \in Items : updates[i] = 1
    /\ success_count + skip_count + fail_count
          = Cardinality({i \in Items : updates[i] = 1})

C12_Witness ==
    \E i, j \in Items :
        /\ pc[i] = "begin"
        /\ retry_count[i] = MAX_RETRIES
        /\ updates[i] = 0
        /\ pc[j] = "failed"
        /\ updates[j] = 1

\* C13: whenever the lock is free, completed_count is the sum of the three
\* other counters and is at most the number of entries; it equals the
\* number of entries only when every entry is terminal.
C13_CountersConsistent ==
    /\ progress_lock = 0 =>
          /\ completed_count = success_count + skip_count + fail_count
          /\ completed_count <= total_videos
    /\ completed_count = total_videos => AllTerminal

C13_Witness ==
    /\ progress_lock = 0
    /\ max_workers = 2
    /\ completed_count = 1
    /\ fail_count = 1
    /\ \E i \in Items : pc[i] = "fetching"

\* the state part of C14: no summary while an entry is not terminal
C14_NoEarlySummary == mainpc = "done" => AllTerminal

\* C14: when every fetch returns and the threads are scheduled fairly, a
\* started batch reaches the state in which every entry is skipped, success
\* or failed and the summary is printed; the summary is never printed while
\* an entry is not terminal.
C14_Termination ==
    /\ [](C14_NoEarlySummary)
    /\ (mainpc = "run") ~> (mainpc = "done" /\ AllTerminal)

C14_Witness ==
    /\ mainpc = "done"
    /\ max_workers = 2
    /\ \E i, j \in Items :
          /\ fetches[i] = MAX_RETRIES + 1
          /\ pc[i] = "failed"
          /\ pc[j] = "success"

\* C15: the failure line of a failed entry is that of its last attempt; an
\* entry whose attempts all timed out is failed with the timeout line, an
\* entry whose attempts all ended in a process error with the other line.
C15_ReasonOfLastAttempt ==
    \A i \in Items :
        pc[i] = "failed" =>
            /\ reason[i] = last[i]
            /\ seen[i] = {"timeout"} => reason[i] = "timeout"
            /\ seen[i] = {"procerr"} => reason[i] = "procerr"

C15_Witness ==
    \E i, j \in Items :
        /\ pc[i] = "failed"
        /\ seen[i] = {"timeout"}
        /\ reason[i] = "timeout"
        /\ pc[j] = "failed"
        /\ seen[j] = {"procerr"}
        /\ reason[j] = "procerr"

\* the entries of the list that ended as outcome
Ended(outcome) == {i \in Items : pc[i] = outcome}

\* C16: the numbers of the summary are the numbers of entries that ended as
\* success (each with its file in the output directory), skipped and failed.
C16_SummaryMatchesOutcomes ==
    mainpc = "done" =>
        /\ summary[1] = Cardinality(Ended("success"))
        /\ summary[2] = Cardinality(Ended("skipped"))
        /\ summary[3] = Cardinality(Ended("failed"))
        /\ \A i \in Ended("success") : videos[i] \in store

C16_Witness ==
    /\ mainpc = "done"
    /\ max_workers = 2
    /\ summary = <<1, 0, 1, 2>>
    /\ \E i, j \in Items : pc[i] = "success" /\ pc[j] = "failed"

\* the positions at which the next step of an entry reads completed_count
\* under the lock into current
ReadPositions == {"begin", "timeout", "procerr", "exc", "skipCS"}

\* the step part of C17
C17_ReadStep ==
    \A i \in Items :
        (pc[i] \in ReadPositions /\ pc'[i] # pc[i]) =>
            \A j \in Items \ {i} :
                pc[j] \in Terminal => current'[i] > current[j]

\* C17: a number that a worker reads from completed_count under the lock is
\* not smaller than any number a peer has printed with a terminal line
\* before: it is greater than each of them.
C17_ReadsNotBelowReported == [][C17_ReadStep]_vars

C17_Witness ==
    /\ max_workers = 2
    /\ \E i, j \in Items :
          /\ pc[j] = "failed"
          /\ current[j] = 1
          /\ pc[i] = "fetching"
          /\ retry_count[i] = 1
          /\ current[i] = 2

\* the positions at which the next step of an entry takes the lock
NeedsLock ==
    {"skip", "begin", "found", "nofile", "timeout", "procerr", "exc",
     "timeoutFail", "procerrFail"}

\* worker w cannot go on because a peer holds the lock
WaitsForLock(w) ==
    /\ job[w] # 0
    /\ pc[job[w]] \in NeedsLock
    /\ progress_lock \notin {0, w}

\* the state part of C18
C18_LockState ==
    /\ progress_lock \in 0..max_workers
    /\ progress_lock # 0 =>
          /\ job[progress_lock] \in Items
          /\ pc[job[progress_lock]] \in {"skipCS", "successCS", "failCS"}
    /\ \A w \in Workers :
          (job[w] # 0 /\ pc[job[w]] = "fetching") => progress_lock # w
    /\ \A w \in Workers :
          (job[w] # 0 /\ pc[job[w]] \in NeedsLock /\ progress_lock = 0) =>
              ENABLED (   SkipEnter(w) \/ FetchStart(w) \/ SuccessEnter(w)
                       \/ NoFileEnter(w) \/ TimeoutHandler(w) \/ ProcErrHandler(w)
                       \/ TimeoutFailEnter(w) \/ ProcErrFailEnter(w)
                       \/ ExceptionEnter(w))
    /\ \E w \in 1..max_workers : ~WaitsForLock(w)

\* C18: the lock is not held while the holder's fetch is in flight; a holder
\* is one statement away from releasing it, so the lock always becomes free
\* again, a worker in a fetch keeps no peer from counting its entry, and the
\* workers never all wait for the lock.
C18_LockNeverBlocks ==
    /\ [](C18_LockState)
    /\ (progress_lock # 0) ~> (progress_lock = 0)

C18_Witness ==
    \E w, v \in Workers :
        /\ progress_lock = w
        /\ job[v] # 0
        /\ pc[job[v]] = "fetching"
        /\ retry_count[job[v]] = 2

\* the positions at which no line has been printed for an entry yet
Unprinted == {"pending", "skip", "skipCS"}

\* C19: every number printed for an entry, with a progress line or with a
\* terminal line, is in 1..total; completed_count + 1 does not exceed total
\* where an attempt or a failure handler is about to read it.
C19_PrintedInRange ==
    \A i \in Items :
        /\ current[i] \in 0..total_videos
        /\ current[i] = 0 =>
              (pc[i] \in Unprinted \/ (pc[i] = "begin" /\ retry_count[i] = 0))
        /\ pc[i] \in (ReadPositions \ {"skipCS"}) => completed_count + 1 <= total_videos

C19_Witness ==
    /\ max_workers = 2
    /\ total_videos = 2
    /\ \E i, j \in Items :
          /\ pc[i] = "skipped"
          /\ current[i] = 1
          /\ pc[j] = "exc"
          /\ completed_count + 1 = total_videos

\* the entries that have a subprocess.run in flight
InFlight == {i \in Items : pc[i] = "fetching"}

\* C20: at most max_workers fetches are in flight, every fetch in flight
\* belongs to one worker and a worker has one entry at a time; with one
\* worker at most one fetch is in flight.
C20_FetchesBoundedByWorkers ==
    /\ Cardinality(InFlight) <= max_workers
    /\ \A w \in Workers : job[w] # 0 => w <= max_workers
    /\ \A i \in InFlight : Cardinality({w \in Workers : job[w] = i}) = 1
    /\ max_workers = 1 => Cardinality(InFlight) <= 1

C20_Witness ==
    /\ max_workers = 2
    /\ Cardinality(InFlight) = 2
    /\ job[1] # job[2]

====
